---- MODULE Spec2Model ----
(***************************************************************************)
(* Transaction categorisation pipeline of TXL_Accounting_Demo:             *)
(*   - the chart of accounts (src/src/models/account.py),                  *)
(*   - the match state of a transaction and Transaction.add_match          *)
(*     (src/src/models/transaction.py),                                    *)
(*   - RuleMatcher: loading its rules and match_transaction                *)
(*     (src/src/matching/rule_matcher.py, src/src/persistence),            *)
(*   - LLMMatcher: the response parser and match_transaction               *)
(*     (src/src/matching/llm_matcher.py),                                  *)
(*   - Matcher.process_transactions (src/src/matching/matcher.py) and      *)
(*     MatchingEngine (src/src/matching/engine.py).                        *)
(*                                                                         *)
(* Confidences are floats in the code and only ever compared; the model    *)
(* holds them as integers in hundredths (0.95 is 95).  Strings are         *)
(* sequences of characters, a character being a small number (0..9 are the *)
(* digits).                                                                *)
(*                                                                         *)
(* The specifications share the variables:                                 *)
(*   Spec         add_match calls on one transaction,                      *)
(*   SpecRule     one RuleMatcher.match_transaction call over every        *)
(*                bounded rule list, mapping table and description,        *)
(*   SpecLoad     a RuleMatcher constructed on a rules file, then one      *)
(*                match_transaction call,                                  *)
(*   SpecMatchers RuleMatcher and LLMMatcher match_transaction calls on    *)
(*                one transaction, in any order,                           *)
(*   SpecEngine   MatchingEngine.add_matcher / process_transactions over a *)
(*                batch, with matchers given by what they propose,         *)
(*   SpecAdd      sequences of MatchingEngine.add_matcher calls,           *)
(*   SpecReview   Transaction.needs_review read on a match state,          *)
(*   SpecStore    RuleStore.save, then a RuleMatcher constructed on the    *)
(*                same file,                                               *)
(*   SpecMapping  MappingStore add_mapping / save / load calls on a file,  *)
(*   SpecConfidence  calculate_rule_based_confidence calls,                *)
(*   SpecChart    find_account / get_leaf_accounts on bounded charts.      *)
(***************************************************************************)
EXTENDS Integers, Sequences, FiniteSets, TLC

VARIABLES
    tx,          \* Spec, SpecRule: the transaction's match state
    pre,         \* Spec, SpecRule: the match state before the last call
    call,        \* Spec: the arguments of the last add_match call, or NoCall
    rm,          \* SpecRule: the RuleMatcher (rules, description_mappings) and the
                 \* transaction's description
    rpc,         \* SpecRule: "idle" | "new" (before __init__) | "ready" (before
                 \* match_transaction) | "done"
    llm,         \* SpecMatchers: the last LLMMatcher.match_transaction call (whether
                 \* the client exists, what the API returned), or NoLLMCall
    eng,         \* SpecEngine: the MatchingEngine (primary_matcher, secondary_matcher)
    matchers,    \* SpecEngine: what each Matcher's match_transaction does to each transaction
    txs,         \* SpecEngine: the batch, a sequence of match states
    run,         \* SpecEngine: the position and the trace of process_transactions
    added,       \* SpecAdd: the matchers passed to add_matcher so far, in call order
    review,      \* SpecReview: what the last read of needs_review gave, or NoReview
    rules_file,  \* SpecLoad, SpecStore: the rules file at rule_store_path
    saved,       \* SpecStore: the last RuleStore.save call, or NoSave
    ms,          \* SpecMapping: the mappings file and the MappingStore calls made on it
    cc,          \* SpecConfidence: the last calculate_rule_based_confidence call
    coa          \* SpecChart: a ChartOfAccounts and the last query made on it

vars == <<tx, pre, call, rm, rpc, llm, eng, matchers, txs, run, added, review, rules_file,
          saved, ms, cc, coa>>

----------------------------------------------------------------------------
(* Chart of accounts *)

None == "None"

\* The chart of the test fixtures (1000 > 1100, 1200 > 1210) with one more
\* leaf under the root and a second root that is a leaf.
Chart ==
    [ A1 |-> [number |-> <<1, 0, 0, 0>>, children |-> <<"A2", "A3", "A5">>],
      A2 |-> [number |-> <<1, 1, 0, 0>>, children |-> <<>>],
      A3 |-> [number |-> <<1, 2, 0, 0>>, children |-> <<"A4">>],
      A4 |-> [number |-> <<1, 2, 1, 0>>, children |-> <<>>],
      A5 |-> [number |-> <<1, 3, 0, 0>>, children |-> <<>>],
      A6 |-> [number |-> <<2, 0, 0, 0>>, children |-> <<>>] ]

Roots == <<"A1", "A6">>

Accounts == DOMAIN Chart

is_leaf(a) == Len(Chart[a].children) = 0

RECURSIVE find_by_number(_, _)
RECURSIVE find_in_list(_, _)
\* Account.find_by_number: self, else the first hit among the children in order.
find_by_number(a, number) ==
    IF Chart[a].number = number THEN a
    ELSE find_in_list(Chart[a].children, number)

\* The loop over a list of accounts shared by Account.find_by_number (children)
\* and ChartOfAccounts.find_account (roots).
find_in_list(list, number) ==
    IF list = <<>> THEN None
    ELSE LET result == find_by_number(Head(list), number)
         IN  IF result # None THEN result ELSE find_in_list(Tail(list), number)

find_account(number) == find_in_list(Roots, number)

Leaves == {a \in Accounts : is_leaf(a)}

----------------------------------------------------------------------------
(* Transaction match state *)

MatchSource == {"MANUAL", "RULE", "MAPPING", "LLM", "UNKNOWN"}

\* Transaction(): the dataclass defaults of the match fields.
FreshTx ==
    [ matched_account     |-> None,
      match_confidence    |-> 0,
      match_source        |-> "UNKNOWN",
      alternative_matches |-> <<>> ]

is_matched_Never(t) == FALSE

\* Transaction.is_matched
is_matched(t) == t.matched_account # None

\* Number of alternatives kept, and the confidence an alternative must exceed.
MaxAlternatives == 3
AlternativeFloor == 30

RECURSIVE InsertDesc(_, _)
\* One step of a stable descending sort: x goes behind every entry whose
\* confidence is at least its own.
InsertDesc(sorted, x) ==
    IF sorted = <<>> THEN <<x>>
    ELSE IF Head(sorted)[2] >= x[2]
         THEN <<Head(sorted)>> \o InsertDesc(Tail(sorted), x)
         ELSE <<x>> \o sorted

RECURSIVE SortDescFrom(_, _)
SortDescFrom(sorted, rest) ==
    IF rest = <<>> THEN sorted
    ELSE SortDescFrom(InsertDesc(sorted, Head(rest)), Tail(rest))

\* list.sort(key=lambda x: x[1], reverse=True): stable, entries of equal
\* confidence keep their order.
SortDesc(alts) == SortDescFrom(<<>>, alts)

\* alternative_matches[:3]
Truncate(alts) ==
    IF Len(alts) > MaxAlternatives THEN SubSeq(alts, 1, MaxAlternatives) ELSE alts

PushAlternative_NoSort(alts, entry) == Truncate(Append(alts, entry))

PushAlternative_DropWhenFull(alts, entry) ==
    IF Len(alts) >= MaxAlternatives THEN alts
    ELSE Truncate(SortDesc(Append(alts, entry)))

\* append, sort, keep the top 3 (both branches of add_match do the same).
PushAlternative(alts, entry) == Truncate(SortDesc(Append(alts, entry)))

is_already_alternative_Never(alts, account) == FALSE

\* any(alt[0] == account for alt in self.alternative_matches)
is_already_alternative(alts, account) ==
    \E i \in 1..Len(alts) : alts[i][1] = account

add_match_NoCompare(t, account, confidence, source) ==
    [ matched_account  |-> account,
      match_confidence |-> confidence,
      match_source     |-> source,
      alternative_matches |->
          IF is_matched(t)
          THEN PushAlternative(t.alternative_matches,
                               <<t.matched_account, t.match_confidence>>)
          ELSE t.alternative_matches ]

\* Transaction.add_match: the match state after the call.
add_match(t, account, confidence, source) ==
    IF ~is_matched(t) \/ confidence > t.match_confidence
    THEN [ matched_account  |-> account,
           match_confidence |-> confidence,
           match_source     |-> source,
           alternative_matches |->
               IF is_matched(t) /\ t.matched_account # account
               THEN PushAlternative(t.alternative_matches,
                                    <<t.matched_account, t.match_confidence>>)
               ELSE t.alternative_matches ]
    ELSE IF account # t.matched_account /\ confidence > AlternativeFloor
    THEN IF ~is_already_alternative(t.alternative_matches, account)
         THEN [t EXCEPT !.alternative_matches =
                            PushAlternative(@, <<account, confidence>>)]
         ELSE t
    ELSE IF account = t.matched_account
    THEN IF t.match_source = "UNKNOWN"
         THEN [t EXCEPT !.match_source = source]
         ELSE t
    ELSE t

----------------------------------------------------------------------------
(* Spec: add_match calls on one transaction *)

\* Confidences the calls draw from: the 0.30 floor itself, just above it, and
\* a high one (ties and strict increases both happen).
Confidences == {30, 31, 90}

\* Sources the callers pass: the default (tests), RuleMatcher and LLMMatcher.
CallSources == {"UNKNOWN", "RULE", "LLM"}

NoCall == [account |-> None, confidence |-> 0, source |-> "UNKNOWN"]

IdleRule == rm = [rules |-> <<>>, description_mappings |-> <<>>, description |-> <<>>]
            /\ rpc = "idle"

\* No LLMMatcher call made. llm_output is the string _call_llm_api returned,
\* the empty string standing for None.
NoLLMCall == [called |-> FALSE, client |-> FALSE, llm_output |-> <<>>]

\* needs_review not read.
NoReview == [done |-> FALSE, needs_review |-> FALSE]

\* No rules file at rule_store_path.
NoFile == [kind |-> "missing", rules |-> <<>>]

\* RuleStore.save not called.
NoSave == [done |-> FALSE, raised |-> FALSE, kind |-> "none", rules |-> <<>>]

\* No MappingStore in use.
NoMappingStore == [op |-> "none"]

\* calculate_rule_based_confidence not called.
NoConfidenceCall == [called |-> FALSE]

\* No chart under query.
NoChartQuery == [op |-> "none"]

IdleStores ==
    /\ saved = NoSave
    /\ ms = NoMappingStore
    /\ cc = NoConfidenceCall
    /\ coa = NoChartQuery

\* process_transactions not started: its position and what it has done so far.
IdleRun ==
    [ pc                |-> "idle",   \* idle | pass1 | select | pass2 | done | failed
      i                 |-> 1,        \* position of the running loop in its list
      threshold         |-> 0,        \* secondary_confidence_threshold
      start             |-> <<>>,     \* the batch as process_transactions received it
      after_pass1       |-> <<>>,     \* the batch when Pass 1 ended
      primary_calls     |-> <<>>,     \* transactions primary_matcher.match_transaction was called on
      primary_raised    |-> FALSE,    \* Pass 1 ended in the except branch
      secondary_invoked |-> FALSE,    \* secondary_matcher.process_transactions was called
      secondary_input   |-> <<>>,     \* the list it was called with
      secondary_calls   |-> <<>>,     \* transactions secondary_matcher.match_transaction was called on
      returned          |-> <<>> ]    \* the list process_transactions returned

IdleEngine == eng = [primary_matcher |-> None, secondary_matcher |-> None]
              /\ matchers = <<>>
              /\ txs = <<>>
              /\ run = IdleRun

Init ==
    /\ tx = FreshTx
    /\ pre = FreshTx
    /\ call = NoCall
    /\ IdleRule
    /\ llm = NoLLMCall
    /\ added = <<>>
    /\ review = NoReview
    /\ rules_file = NoFile
    /\ IdleStores
    /\ IdleEngine

\* transaction.add_match(account, confidence, source)
AddMatch(account, confidence, source) ==
    /\ tx' = add_match(tx, account, confidence, source)
    /\ pre' = tx
    /\ call' = [account |-> account, confidence |-> confidence, source |-> source]
    /\ UNCHANGED <<rm, rpc, llm, eng, matchers, txs, run, added, review, rules_file,
                 saved, ms, cc, coa>>

Next ==
    \E account \in Leaves, confidence \in Confidences, source \in CallSources :
        AddMatch(account, confidence, source)

Spec == Init /\ [][Next]_vars

----------------------------------------------------------------------------
(* Claims about add_match (Spec) *)

Called == call.account # None

InAlts(alts, entry) == \E i \in 1..Len(alts) : alts[i] = entry

\* How many alternatives have a confidence of at least c.
CountAtLeast(alts, c) == Cardinality({i \in 1..Len(alts) : alts[i][2] >= c})

PrevEntry == <<pre.matched_account, pre.match_confidence>>

CallEntry == <<call.account, call.confidence>>

C1_Case == Called /\ (~is_matched(pre) \/ pre.match_confidence < call.confidence)

C1_PrevDiffers == is_matched(pre) /\ pre.matched_account # call.account

C1_Primary ==
    /\ tx.matched_account = call.account
    /\ tx.match_confidence = call.confidence
    /\ tx.match_source = call.source

\* C1 as stated: add_match on an unmatched transaction, or with a confidence
\* strictly above the current one, makes (account, confidence, source) the
\* primary match, and the previous primary, when its account differs, is in
\* alternative_matches afterwards.
C1_Original ==
    C1_Case =>
        /\ C1_Primary
        /\ C1_PrevDiffers => InAlts(tx.alternative_matches, PrevEntry)

\* C1 amended: the call makes (account, confidence, source) the primary match;
\* the previous primary, when its account differs, is appended, the list is
\* sorted and cut to 3, so it is among the alternatives afterwards exactly
\* when fewer than 3 alternatives had a confidence of at least its own.
C1_Amended ==
    C1_Case =>
        /\ C1_Primary
        /\ C1_PrevDiffers =>
              (InAlts(tx.alternative_matches, PrevEntry)
                  <=> CountAtLeast(pre.alternative_matches, pre.match_confidence) < 3)

\* A better match displaced a different primary while three alternatives were
\* already held, and the displaced primary is among the alternatives.
C1_Witness ==
    /\ C1_Case /\ C1_PrevDiffers
    /\ Len(pre.alternative_matches) = 3
    /\ InAlts(tx.alternative_matches, PrevEntry)

C2_Case ==
    /\ Called /\ is_matched(pre)
    /\ call.confidence <= pre.match_confidence
    /\ call.account # pre.matched_account

C2_PrimaryKept ==
    /\ tx.matched_account = pre.matched_account
    /\ tx.match_confidence = pre.match_confidence
    /\ tx.match_source = pre.match_source

C2_Eligible ==
    /\ call.confidence > 30
    /\ \A i \in 1..Len(pre.alternative_matches) :
          pre.alternative_matches[i][1] # call.account

C2_Added ==
    /\ InAlts(tx.alternative_matches, CallEntry)
    /\ ~InAlts(pre.alternative_matches, CallEntry)

C3_BoundedSorted ==
    /\ Len(tx.alternative_matches) <= 3
    /\ \A i \in 1..(Len(tx.alternative_matches) - 1) :
          tx.alternative_matches[i][2] >= tx.alternative_matches[i + 1][2]

\* Three alternatives of different confidences after a call that changed the list.
C3_Witness ==
    /\ Called
    /\ Len(tx.alternative_matches) = 3
    /\ tx.alternative_matches[1][2] > tx.alternative_matches[3][2]
    /\ tx.alternative_matches # pre.alternative_matches

\* C4: add_match is idempotent: after a call, the same call again leaves the
\* match state as it is.
C4_Idempotent ==
    Called => add_match(tx, call.account, call.confidence, call.source) = tx

\* The call just made found its entry among the alternatives and changed
\* nothing: the state a repeated alternative-adding call ends in.
C4_Witness ==
    /\ Called /\ tx = pre
    /\ call.account # tx.matched_account
    /\ InAlts(tx.alternative_matches, CallEntry)

----------------------------------------------------------------------------
(* SpecEngine: MatchingEngine over a batch *)

\* Transactions in the batch.
NumTx == 2

TxIndex == 1..NumTx

\* Two Matcher objects; each passes its own source to add_match.
Matchers == {"M1", "M2"}

MatcherSource == [M1 |-> "RULE", M2 |-> "LLM"]

\* What a matcher's match_transaction does on one transaction: nothing, raise,
\* or one add_match of a leaf account (one proposal below the default 0.80
\* threshold, one above).
Outcomes ==
    { [kind |-> "nothing", account |-> None, confidence |-> 0],
      [kind |-> "raise",   account |-> None, confidence |-> 0],
      [kind |-> "match",   account |-> "A2", confidence |-> 75],
      [kind |-> "match",   account |-> "A4", confidence |-> 85] }

\* A transaction that carries a match when the batch starts, at exactly the
\* default threshold.
PreMatched ==
    [ matched_account     |-> "A6",
      match_confidence    |-> 80,
      match_source        |-> "MANUAL",
      alternative_matches |-> <<>> ]

\* secondary_confidence_threshold: the default of process_transactions.
secondary_confidence_threshold == 80

\* MatchingEngine.__init__
NewEngine == [primary_matcher |-> None, secondary_matcher |-> None]

InitEngine ==
    /\ tx = FreshTx
    /\ pre = FreshTx
    /\ call = NoCall
    /\ IdleRule
    /\ llm = NoLLMCall
    /\ added = <<>>
    /\ review = NoReview
    /\ rules_file = NoFile
    /\ IdleStores
    /\ eng = NewEngine
    /\ matchers \in [Matchers -> [TxIndex -> Outcomes]]
    /\ txs \in [TxIndex -> {FreshTx, PreMatched}]
    /\ run = IdleRun

add_matcher_ReplaceSecondary(e, m) ==
    IF e.primary_matcher = None THEN [e EXCEPT !.primary_matcher = m]
    ELSE [e EXCEPT !.secondary_matcher = m]

\* MatchingEngine.add_matcher: the engine after the call.
add_matcher(e, m) ==
    IF e.primary_matcher = None THEN [e EXCEPT !.primary_matcher = m]
    ELSE IF e.secondary_matcher = None THEN [e EXCEPT !.secondary_matcher = m]
    ELSE e

AddMatcher(m) ==
    /\ run.pc = "idle"
    /\ eng' = add_matcher(eng, m)
    /\ UNCHANGED <<tx, pre, call, rm, rpc, llm, matchers, txs, run, added, review, rules_file,
                 saved, ms, cc, coa>>

primary_missing_Never(e) == FALSE

\* `not self.primary_matcher`
primary_missing(e) == e.primary_matcher = None

\* process_transactions up to the start of Pass 1: RuntimeError without a
\* primary matcher.
Begin ==
    /\ run.pc = "idle"
    /\ run' = IF primary_missing(eng)
              THEN [run EXCEPT !.pc = "failed", !.start = txs]
              ELSE [run EXCEPT !.pc = "pass1", !.i = 1,
                               !.threshold = secondary_confidence_threshold,
                               !.start = txs]
    /\ UNCHANGED <<tx, pre, call, rm, rpc, llm, eng, matchers, txs, added, review, rules_file,
                 saved, ms, cc, coa>>

\* Matcher.match_transaction of matcher m on transaction k in state t.
match_transaction(m, k, t) ==
    LET o == matchers[m][k]
    IN  IF o.kind = "match"
        THEN add_match(t, o.account, o.confidence, MatcherSource[m])
        ELSE t

should_attempt_Always(t) == TRUE

\* Matcher.process_transactions: the guard of the loop body.
should_attempt(t) == ~is_matched(t)

\* One iteration of primary_matcher.process_transactions(transactions); a
\* raise leaves the loop and is caught by the engine.
Pass1Step ==
    /\ run.pc = "pass1"
    /\ LET k == run.i
           m == eng.primary_matcher
           attempt == should_attempt(txs[k])
           raises == attempt /\ matchers[m][k].kind = "raise"
       IN  /\ txs' = IF attempt
                     THEN [txs EXCEPT ![k] = match_transaction(m, k, @)]
                     ELSE txs
           /\ run' = [run EXCEPT
                        !.primary_calls = IF attempt THEN Append(@, k) ELSE @,
                        !.primary_raised = raises,
                        !.i = k + 1,
                        !.pc = IF raises \/ k = Len(txs) THEN "select" ELSE "pass1"]
    /\ UNCHANGED <<tx, pre, call, rm, rpc, llm, eng, matchers, added, review, rules_file,
                 saved, ms, cc, coa>>

transactions_for_secondary_pass_OnlyUnmatched(ts, threshold) ==
    LET Needs(k) == ~is_matched(ts[k])
    IN  SelectSeq([k \in 1..Len(ts) |-> k], Needs)

\* The list comprehension of Pass 2, as positions in the batch.
transactions_for_secondary_pass(ts, threshold) ==
    LET Needs(k) == ~is_matched(ts[k]) \/ ts[k].match_confidence < threshold
    IN  SelectSeq([k \in 1..Len(ts) |-> k], Needs)

returned_list_Matched(ts) ==
    SelectSeq([k \in 1..Len(ts) |-> k], LAMBDA k : is_matched(ts[k]))

\* `return transactions`: the batch itself, as positions in the batch.
returned_list(ts) == [k \in 1..Len(ts) |-> k]

\* Between the passes: the selection, and whether Pass 2 runs.
Select ==
    /\ run.pc = "select"
    /\ LET sel == transactions_for_secondary_pass(txs, run.threshold)
           go == eng.secondary_matcher # None /\ Len(sel) > 0
       IN  run' = [run EXCEPT
                     !.after_pass1 = txs,
                     !.secondary_invoked = go,
                     !.secondary_input = IF go THEN sel ELSE <<>>,
                     !.i = 1,
                     !.returned = IF go THEN @ ELSE returned_list(txs),
                     !.pc = IF go THEN "pass2" ELSE "done"]
    /\ UNCHANGED <<tx, pre, call, rm, rpc, llm, eng, matchers, txs, added, review, rules_file,
                 saved, ms, cc, coa>>

\* One iteration of secondary_matcher.process_transactions(selection).
Pass2Step ==
    /\ run.pc = "pass2"
    /\ LET k == run.secondary_input[run.i]
           m == eng.secondary_matcher
           attempt == should_attempt(txs[k])
           raises == attempt /\ matchers[m][k].kind = "raise"
       IN  /\ txs' = IF attempt
                     THEN [txs EXCEPT ![k] = match_transaction(m, k, @)]
                     ELSE txs
           /\ run' = [run EXCEPT
                        !.secondary_calls = IF attempt THEN Append(@, k) ELSE @,
                        !.i = @ + 1,
                        !.returned = IF raises \/ run.i = Len(run.secondary_input)
                                     THEN returned_list(txs) ELSE @,
                        !.pc = IF raises \/ run.i = Len(run.secondary_input)
                               THEN "done" ELSE "pass2"]
    /\ UNCHANGED <<tx, pre, call, rm, rpc, llm, eng, matchers, added, review, rules_file,
                 saved, ms, cc, coa>>

NextEngine ==
    \/ \E m \in Matchers : AddMatcher(m)
    \/ Begin
    \/ Pass1Step
    \/ Select
    \/ Pass2Step

SpecEngine == InitEngine /\ [][NextEngine]_vars

----------------------------------------------------------------------------
(* SpecRule: RuleMatcher.match_transaction *)

CONFIDENCE_EQUALS == 95
CONFIDENCE_CONTAINS == 85
DEFAULT_RULE_PRIORITY == 10

\* The mapping_confidence_threshold argument of RuleMatcher.__init__ (its
\* default); __init__ does not store it and match_transaction does not read it.
mapping_confidence_threshold == 95

\* `sub in s` on strings.
Contains(sub, s) ==
    \E k \in 0..(Len(s) - Len(sub)) : SubSeq(s, k + 1, k + Len(sub)) = sub

\* RuleMatcher._apply_mapping
_apply_mapping(mappings, description) ==
    IF description \in DOMAIN mappings THEN mappings[description] ELSE description

_validate_match_Any(account) == TRUE

\* RuleMatcher._validate_match
_validate_match(account) ==
    IF account = None THEN FALSE
    ELSE IF ~is_leaf(account) THEN FALSE
    ELSE TRUE

rule_has_custom_confidence_Any(rule) == "confidence" \in DOMAIN rule

\* The explicit confidence of a rule is used when it is a number in [0, 1].
rule_has_custom_confidence(rule) ==
    /\ "confidence" \in DOMAIN rule
    /\ 0 <= rule.confidence /\ rule.confidence <= 100

\* rule_confidence when the rule's condition holds (-1.0 while not set).
rule_confidence(rule) ==
    IF rule_has_custom_confidence(rule) THEN rule.confidence
    ELSE IF rule.condition_type = "description_equals" THEN CONFIDENCE_EQUALS
    ELSE IF rule.condition_type = "description_contains" THEN CONFIDENCE_CONTAINS
    ELSE -100

\* match, for the two supported condition types.
condition_matches(rule, mapped_description) ==
    IF rule.condition_type = "description_equals"
    THEN mapped_description = rule.condition_value
    ELSE IF rule.condition_type = "description_contains"
    THEN Contains(rule.condition_value, mapped_description)
    ELSE FALSE

\* best_match_account, highest_confidence, highest_priority before the loop.
InitialBest ==
    [ best_match_account |-> None,
      highest_confidence |-> -100,
      highest_priority   |-> -1 ]

\* One iteration of the loop over self.rules.
evaluate_rule(best, rule, mapped_description) ==
    LET priority == IF "priority" \in DOMAIN rule THEN rule.priority
                    ELSE DEFAULT_RULE_PRIORITY
    IN  IF \/ rule.condition_type = "" \/ rule.condition_value = <<>>
           \/ rule.account_number = <<>>
        THEN best
        ELSE IF rule.condition_type \notin {"description_equals", "description_contains"}
        THEN best
        ELSE IF ~(condition_matches(rule, mapped_description) /\ ~(rule_confidence(rule) < 0))
        THEN best
        ELSE LET potential_account == find_account(rule.account_number)
             IN  IF potential_account # None /\ _validate_match(potential_account)
                 THEN IF priority > best.highest_priority
                      THEN [ best_match_account |-> potential_account,
                             highest_confidence |-> rule_confidence(rule),
                             highest_priority   |-> priority ]
                      ELSE IF /\ priority = best.highest_priority
                              /\ rule_confidence(rule) > best.highest_confidence
                      THEN [best EXCEPT !.highest_confidence = rule_confidence(rule),
                                        !.best_match_account = potential_account]
                      ELSE best
                 ELSE best

RECURSIVE evaluate_rules(_, _, _)
\* for rule in self.rules
evaluate_rules(best, rules, mapped_description) ==
    IF rules = <<>> THEN best
    ELSE evaluate_rules(evaluate_rule(best, Head(rules), mapped_description),
                        Tail(rules), mapped_description)

\* RuleMatcher.match_transaction: the match state after the call.
RuleMatcher_match_transaction(matcher, description, t) ==
    LET mapped_description == _apply_mapping(matcher.description_mappings, description)
        best == evaluate_rules(InitialBest, matcher.rules, mapped_description)
    IN  IF best.best_match_account # None
        THEN add_match(t, best.best_match_account, best.highest_confidence, "RULE")
        ELSE t

\* Rules in the list.
MaxRules == 2

\* Transaction descriptions: "7", and "78" which contains it.
Descriptions == {<<7>>, <<7, 8>>}

\* Account numbers the rules and the mapping name: leaves 1100 and 1210 of
\* the fixture (A2, A4).
LeafNumbers == {<<1, 1, 0, 0>>, <<1, 2, 1, 0>>}

\* Rule conditions: on the description text, and on an account number (what a
\* mapped description is turned into).
Conditions ==
    { [condition_type |-> "description_equals",   condition_value |-> <<7>>],
      [condition_type |-> "description_contains", condition_value |-> <<7>>],
      [condition_type |-> "description_equals",   condition_value |-> <<1, 1, 0, 0>>] }

Priorities == {-3, -2, 0, 10}

\* Rules to a leaf, without and with an explicit confidence (0.97); with an
\* explicit confidence outside [0, 1]; and rules no transaction can be matched
\* by: to a non-leaf, to a number not in the chart, of an unsupported type.
RuleUniverse ==
    { [condition_type |-> c.condition_type, condition_value |-> c.condition_value,
       account_number |-> n, priority |-> p] :
          c \in Conditions, n \in LeafNumbers, p \in Priorities }
    \cup
    { [condition_type |-> c.condition_type, condition_value |-> c.condition_value,
       account_number |-> n, priority |-> p, confidence |-> 97] :
          c \in Conditions, n \in LeafNumbers, p \in Priorities }
    \cup
    { [condition_type |-> "description_contains", condition_value |-> <<7>>,
       account_number |-> n, priority |-> 10, confidence |-> 150] : n \in LeafNumbers }
    \cup
    { [condition_type |-> "description_contains", condition_value |-> <<7>>,
       account_number |-> <<1, 0, 0, 0>>, priority |-> 10],
      [condition_type |-> "description_contains", condition_value |-> <<7>>,
       account_number |-> <<9, 9, 9, 9>>, priority |-> 10],
      [condition_type |-> "description_matches_regex", condition_value |-> <<7>>,
       account_number |-> <<1, 1, 0, 0>>, priority |-> 10] }

\* self.rules, the list match_transaction iterates: dicts carrying the keys
\* _load_or_initialize_rules requires of a rule. (RuleStore.load of this
\* revision returns a dict or None, never a list, so a matcher built from a
\* rules file starts with the empty list; the longer lists are the values of
\* the rules attribute the loop is written for.)
RuleLists == UNION {[1..n -> RuleUniverse] : n \in 0..MaxRules}

\* No mapping, or the description mapped to a leaf's account number.
MappingsFor(description) == {<<>>, description :> <<1, 1, 0, 0>>}

InitRule ==
    /\ tx = FreshTx
    /\ pre = FreshTx
    /\ call = NoCall
    /\ IdleEngine
    /\ llm = NoLLMCall
    /\ added = <<>>
    /\ review = NoReview
    /\ rules_file = NoFile
    /\ IdleStores
    /\ rpc = "ready"
    /\ \E rules \in RuleLists, description \in Descriptions :
          \E mappings \in MappingsFor(description) :
              rm = [ rules                |-> rules,
                     description_mappings |-> mappings,
                     description          |-> description ]

\* matcher.match_transaction(transaction)
MatchTransaction ==
    /\ rpc = "ready"
    /\ tx' = RuleMatcher_match_transaction(rm, rm.description, tx)
    /\ pre' = tx
    /\ rpc' = "done"
    /\ UNCHANGED <<call, rm, llm, eng, matchers, txs, run, added, review, rules_file,
                 saved, ms, cc, coa>>

NextRule == MatchTransaction

SpecRule == InitRule /\ [][NextRule]_vars


----------------------------------------------------------------------------
(* LLMMatcher: the response parser and match_transaction *)

\* Characters besides the digits: newline, space, a letter.
NL == 10
SP == 11
X  == 12

Digits == 0..9

Whitespace == {NL, SP}

RECURSIVE lstrip(_)
lstrip(s) ==
    IF s # <<>> /\ Head(s) \in Whitespace THEN lstrip(Tail(s)) ELSE s

RECURSIVE rstrip(_)
rstrip(s) ==
    IF s # <<>> /\ s[Len(s)] \in Whitespace THEN rstrip(SubSeq(s, 1, Len(s) - 1)) ELSE s

\* str.strip()
strip(s) == rstrip(lstrip(s))

RECURSIVE split_lines(_)
\* str.split('\n')
split_lines(s) ==
    IF \A k \in 1..Len(s) : s[k] # NL THEN <<s>>
    ELSE LET k == CHOOSE k \in 1..Len(s) :
                      s[k] = NL /\ \A j \in 1..(k - 1) : s[j] # NL
         IN  <<SubSeq(s, 1, k - 1)>> \o split_lines(SubSeq(s, k + 1, Len(s)))

\* re.fullmatch(r"\d+", s)
is_digit_string(s) == s # <<>> /\ \A k \in 1..Len(s) : s[k] \in Digits

\* The digits an account number line must have.
AccountNumberDigits == 4

\* re.fullmatch(r"\d{4}", s)
is_account_number_format(s) ==
    Len(s) = AccountNumberDigits /\ \A k \in 1..Len(s) : s[k] \in Digits

RECURSIVE int(_)
\* int(s) of a digit string
int(s) ==
    IF s = <<>> THEN 0 ELSE 10 * int(SubSeq(s, 1, Len(s) - 1)) + s[Len(s)]

\* _call_llm_api, given the content of the API's answer (empty when the call
\* fails or the answer has no content): the stripped content; the empty
\* string stands for None.
_call_llm_api(content) == strip(content)

\* Line 1 of the response: the account number if it is the number of a leaf,
\* else None (the empty string).
parse_account_number(line) ==
    LET parsed_acc_num_str == strip(line)
    IN  IF is_account_number_format(parsed_acc_num_str)
        THEN LET potential_account == find_account(parsed_acc_num_str)
             IN  IF potential_account # None /\ is_leaf(potential_account)
                 THEN parsed_acc_num_str
                 ELSE <<>>
        ELSE <<>>

\* Line 2 of the response: the confidence in hundredths, 0.0 when the line is
\* not an integer in 0..100.
parse_confidence(line) ==
    LET parsed_conf_str == strip(line)
    IN  IF is_digit_string(parsed_conf_str)
        THEN IF 0 <= int(parsed_conf_str) /\ int(parsed_conf_str) <= 100
             THEN int(parsed_conf_str)
             ELSE 0
        ELSE 0

\* LLMMatcher._parse_llm_response: (account_number, confidence).
_parse_llm_response(llm_output) ==
    IF llm_output = <<>> THEN [account_number |-> <<>>, confidence |-> 0]
    ELSE LET lines == split_lines(strip(llm_output))
             account_number == IF Len(lines) >= 2 THEN parse_account_number(lines[1])
                               ELSE <<>>
             confidence == IF Len(lines) >= 2 THEN parse_confidence(lines[2]) ELSE 0
         IN  IF account_number = <<>>
             THEN [account_number |-> <<>>, confidence |-> 0]
             ELSE [account_number |-> account_number, confidence |-> confidence]

\* The condition under which the parsed match is applied.
llm_is_better(t, confidence) ==
    ~is_matched(t) \/ confidence >= t.match_confidence

\* LLMMatcher.match_transaction: the match state after the call.
LLMMatcher_match_transaction(client, content, t) ==
    IF ~client THEN t
    ELSE IF Leaves = {} THEN t
    ELSE LET llm_output == _call_llm_api(content)
         IN  IF llm_output = <<>> THEN t
             ELSE LET parsed == _parse_llm_response(llm_output)
                  IN  IF parsed.account_number # <<>>
                      THEN LET matched_account == find_account(parsed.account_number)
                           IN  IF matched_account = None THEN t
                               ELSE IF llm_is_better(t, parsed.confidence)
                               THEN add_match(t, matched_account, parsed.confidence, "LLM")
                               ELSE t
                      ELSE t

----------------------------------------------------------------------------
(* SpecMatchers: RuleMatcher and LLMMatcher calls on one transaction *)

\* Rules in the RuleMatcher's list.
MaxMatcherRules == 1

\* The rules of priority 10 on descriptions that contain "7": to a leaf (with
\* no, a valid and an invalid explicit confidence), to a non-leaf, to a number
\* not in the chart, of an unsupported type.
MatcherRules ==
    {rule \in RuleUniverse : /\ rule.priority = 10
                             /\ rule.condition_value = <<7>>
                             /\ rule.condition_type # "description_equals"}

MatcherRuleLists == UNION {[1..n -> MatcherRules] : n \in 0..MaxMatcherRules}

\* A two-line response.
TwoLines(first, second) == first \o <<NL>> \o second

\* What the API answers: nothing; blanks; well-formed answers naming a leaf
\* (plain, padded with blanks, followed by a third line); answers whose
\* account line is a non-leaf, not in the chart, or not four digits; a single
\* line; answers whose confidence line is not an integer in 0..100.
LLMContents ==
    { <<>>,
      <<SP, NL>>,
      TwoLines(<<1, 1, 0, 0>>, <<8, 5>>),
      <<SP>> \o TwoLines(<<1, 2, 1, 0, SP>>, <<SP, 1, 0, 0>>) \o <<NL>>,
      TwoLines(TwoLines(<<1, 3, 0, 0>>, <<3, 1>>), <<X>>),
      TwoLines(<<1, 0, 0, 0>>, <<8, 5>>),
      TwoLines(<<9, 9, 9, 9>>, <<8, 5>>),
      TwoLines(<<1, 1, 0>>, <<8, 5>>),
      TwoLines(<<1, 1, 0, 0, 0>>, <<8, 5>>),
      TwoLines(<<X, 1, 1, 0, 0>>, <<8, 5>>),
      <<1, 1, 0, 0>>,
      <<1, 1, 0, 0, NL>>,
      TwoLines(<<1, 1, 0, 0>>, <<X, 5>>),
      TwoLines(<<1, 1, 0, 0>>, <<1, 5, 0>>),
      TwoLines(<<1, 1, 0, 0>>, <<8, SP, 5>>) }

InitMatchers ==
    /\ tx = FreshTx
    /\ pre = FreshTx
    /\ call = NoCall
    /\ IdleEngine
    /\ llm = NoLLMCall
    /\ added = <<>>
    /\ review = NoReview
    /\ rules_file = NoFile
    /\ IdleStores
    /\ rpc = "ready"
    /\ \E rules \in MatcherRuleLists, description \in Descriptions :
          rm = [ rules                |-> rules,
                 description_mappings |-> <<>>,
                 description          |-> description ]

\* rule_matcher.match_transaction(transaction)
RuleMatch ==
    /\ tx' = RuleMatcher_match_transaction(rm, rm.description, tx)
    /\ pre' = tx
    /\ rpc' = "done"
    /\ llm' = NoLLMCall
    /\ UNCHANGED <<call, rm, eng, matchers, txs, run, added, review, rules_file,
                 saved, ms, cc, coa>>

\* The calls on an LLMMatcher: without a client, or with one and the content
\* the API answers with.
LLMCalls ==
    {[client |-> FALSE, content |-> <<>>]}
    \cup {[client |-> TRUE, content |-> content] : content \in LLMContents}

\* llm_matcher.match_transaction(transaction)
LLMMatch(client, content) ==
    /\ tx' = LLMMatcher_match_transaction(client, content, tx)
    /\ pre' = tx
    /\ rpc' = "ready"
    /\ llm' = [called |-> TRUE, client |-> client, llm_output |-> _call_llm_api(content)]
    /\ UNCHANGED <<call, rm, eng, matchers, txs, run, added, review, rules_file,
                 saved, ms, cc, coa>>

NextMatchers ==
    \/ RuleMatch
    \/ \E c \in LLMCalls : LLMMatch(c.client, c.content)

SpecMatchers == InitMatchers /\ [][NextMatchers]_vars

----------------------------------------------------------------------------
(* Claims about MatchingEngine.process_transactions (SpecEngine) *)

Range(seq) == {seq[k] : k \in 1..Len(seq)}

Ascending(seq) == \A k \in 1..(Len(seq) - 1) : seq[k] < seq[k + 1]

Pass1Over == run.pc \in {"select", "pass2", "done"}

Selected == run.pc \in {"pass2", "done"}

\* The transactions that are unmatched or below the threshold after Pass 1.
C5_Subset ==
    {k \in TxIndex : \/ run.after_pass1[k].matched_account = None
                     \/ run.after_pass1[k].match_confidence < run.threshold}

\* C5: the secondary matcher's process_transactions is called with exactly
\* the transactions that after Pass 1 are unmatched or have a confidence
\* strictly below the threshold, in input order; with no such transaction or
\* no secondary matcher it is not called at all.
C5_SecondarySelection ==
    Selected =>
        IF eng.secondary_matcher # None /\ C5_Subset # {}
        THEN /\ run.secondary_invoked
             /\ Range(run.secondary_input) = C5_Subset
             /\ Ascending(run.secondary_input)
        ELSE /\ ~run.secondary_invoked
             /\ run.secondary_calls = <<>>

\* With threshold 0.80, a batch where Pass 1 left one transaction matched at
\* 0.75 (passed to the secondary matcher) and one at 0.85 (not passed).
C5_Witness ==
    /\ run.pc = "done" /\ run.threshold = 80 /\ run.secondary_invoked
    /\ \E k \in Range(run.secondary_input) :
          /\ run.after_pass1[k].matched_account # None
          /\ run.after_pass1[k].match_confidence = 75
    /\ \E k \in TxIndex \ Range(run.secondary_input) :
          run.after_pass1[k].match_confidence = 85

\* The secondary matcher raises on no transaction of the batch.
SecondaryNeverRaises ==
    \A k \in TxIndex : matchers[eng.secondary_matcher][k].kind # "raise"

\* C6: a transaction matched below the threshold after Pass 1, for which the
\* secondary matcher proposes a leaf account with a strictly higher
\* confidence, has the secondary matcher's proposal as its primary match when
\* process_transactions returns.
C6_SecondaryOverrides ==
    (run.pc = "done" /\ eng.secondary_matcher # None /\ SecondaryNeverRaises) =>
        \A k \in TxIndex :
            LET o == matchers[eng.secondary_matcher][k]
                a == run.after_pass1[k]
            IN  ( /\ a.matched_account # None
                  /\ a.match_confidence < run.threshold
                  /\ o.kind = "match"
                  /\ o.account \in Leaves
                  /\ o.confidence > a.match_confidence )
                => /\ txs[k].matched_account = o.account
                   /\ txs[k].match_confidence = o.confidence

C7_Stop ==
    LET Raising == {k \in TxIndex :
                       /\ run.start[k].matched_account = None
                       /\ matchers[eng.primary_matcher][k].kind = "raise"}
    IN  IF Raising = {} THEN NumTx
        ELSE CHOOSE k \in Raising : \A j \in Raising : k <= j

----------------------------------------------------------------------------
(* Claims about RuleMatcher.match_transaction (SpecRule) *)

\* match_transaction has returned.
Matched == rpc = "done"

RuleIndex == 1..Len(rm.rules)

\* The transaction's exact description is a key of the mapping table.
IsMappingKey == rm.description \in DOMAIN rm.description_mappings

\* The account the description is mapped to.
MappedAccount == find_account(rm.description_mappings[rm.description])

\* The description the rules are evaluated on.
MappedDescription == _apply_mapping(rm.description_mappings, rm.description)

\* The condition of a rule holds on a description.
HoldsOn(rule, description) ==
    \/ /\ rule.condition_type = "description_equals"
       /\ description = rule.condition_value
    \/ /\ rule.condition_type = "description_contains"
       /\ Contains(rule.condition_value, description)

\* The resolved confidence of a rule: explicit if valid, else the type default.
Resolved(rule) ==
    IF "confidence" \in DOMAIN rule /\ rule.confidence \in 0..100
    THEN rule.confidence
    ELSE IF rule.condition_type = "description_equals" THEN 95 ELSE 85

\* The account a rule targets.
Target(rule) == find_account(rule.account_number)

\* No rule whose condition holds, on the description or on what the mapping
\* turns it into, scores higher than the mapping.
NoRuleScoresHigher ==
    \A k \in RuleIndex :
        \/ ~(HoldsOn(rm.rules[k], rm.description) \/ HoldsOn(rm.rules[k], MappedDescription))
        \/ Resolved(rm.rules[k]) <= mapping_confidence_threshold

\* C8: when the description is a mapping key mapped to an existing leaf's
\* number and no rule scores higher, match_transaction leaves the transaction
\* matched to the mapped account with confidence equal to the mapping
\* confidence threshold (also with no rules loaded).
C8_MappingMatch ==
    (Matched /\ IsMappingKey /\ MappedAccount \in Leaves /\ NoRuleScoresHigher)
        => /\ tx.matched_account = MappedAccount
           /\ tx.match_confidence = mapping_confidence_threshold

\* Rule k is the only rule whose condition holds, on the description or on
\* what the mapping turns it into.
OnlyRuleHolding(k) ==
    /\ HoldsOn(rm.rules[k], rm.description)
    /\ \A j \in RuleIndex \ {k} :
          ~(HoldsOn(rm.rules[j], rm.description) \/ HoldsOn(rm.rules[j], MappedDescription))

\* C9: when the description is a mapping key and a rule whose condition holds
\* on the transaction resolves to a confidence above the mapping confidence
\* threshold, match_transaction matches the transaction to the rule's account
\* with the rule's confidence. Stated for a rule that targets a leaf, has a
\* non-negative priority and is the only rule whose condition holds.
C9_RuleOverridesMapping ==
    (Matched /\ IsMappingKey)
        => \A k \in RuleIndex :
              ( /\ OnlyRuleHolding(k)
                /\ Resolved(rm.rules[k]) > mapping_confidence_threshold
                /\ Target(rm.rules[k]) \in Leaves
                /\ rm.rules[k].priority >= 0 )
              => /\ tx.matched_account = Target(rm.rules[k])
                 /\ tx.match_confidence = Resolved(rm.rules[k])

\* The rules that match the transaction and target an existing leaf.
MatchingRules ==
    {k \in RuleIndex : /\ HoldsOn(rm.rules[k], MappedDescription)
                       /\ Target(rm.rules[k]) \in Leaves}

\* C10: when two or more rules match the transaction with pairwise different
\* priorities and each targets an existing leaf, match_transaction selects the
\* account of the rule with the highest priority, whatever the confidences and
\* the order of the rules.
C10_HighestPriorityWins ==
    ( /\ Matched
      /\ Cardinality(MatchingRules) >= 2
      /\ \A j, k \in MatchingRules : j # k => rm.rules[j].priority # rm.rules[k].priority )
        => \E k \in MatchingRules :
              /\ \A j \in MatchingRules : rm.rules[j].priority <= rm.rules[k].priority
              /\ tx.matched_account = Target(rm.rules[k])

\* C10 restricted to rule lists in which some matching rule has a priority of
\* -1 or above (a diagnostic, not the claim).
HighestPriorityWinsFromMinusOne ==
    (\E k \in MatchingRules : rm.rules[k].priority >= -1) => C10_HighestPriorityWins

\* C11: the confidence match_transaction gives a match is the resolved
\* confidence of a matching rule for the matched account: the rule's explicit
\* confidence when it is in [0, 1], else 0.95 for description_equals and 0.85
\* for description_contains; and a single matching rule of non-negative
\* priority gives its account at its resolved confidence.
C11_ResolvedConfidence ==
    Matched =>
        /\ is_matched(tx) =>
              \E k \in MatchingRules :
                  /\ tx.matched_account = Target(rm.rules[k])
                  /\ tx.match_confidence = Resolved(rm.rules[k])
        /\ \A k \in RuleIndex :
              (MatchingRules = {k} /\ rm.rules[k].priority >= 0)
                  => /\ tx.matched_account = Target(rm.rules[k])
                     /\ tx.match_confidence = Resolved(rm.rules[k])

\* A description_contains rule "7" -> 1100 with priority 10 and no explicit
\* confidence matched "78" to 1100 at 0.85, next to a rule whose explicit
\* confidence 1.50 is not used.
C11_Witness ==
    /\ Matched
    /\ rm.description = <<7, 8>>
    /\ Len(rm.rules) = 2
    /\ rm.rules[1] = [condition_type |-> "description_contains", condition_value |-> <<7>>,
                      account_number |-> <<1, 1, 0, 0>>, priority |-> 10]
    /\ "confidence" \in DOMAIN rm.rules[2] /\ rm.rules[2].confidence = 150
    /\ tx.matched_account = "A2"
    /\ tx.match_confidence = 85

\* The matching rules of the highest priority among the matching rules.
TopPriorityRules ==
    {k \in MatchingRules :
        \A j \in MatchingRules : rm.rules[j].priority <= rm.rules[k].priority}

\* The rule selected among rules of equal priority: the first in the list of
\* those with the highest resolved confidence.
FirstBest(group) ==
    CHOOSE k \in group :
        /\ \A j \in group : Resolved(rm.rules[j]) <= Resolved(rm.rules[k])
        /\ \A j \in group : Resolved(rm.rules[j]) = Resolved(rm.rules[k]) => k <= j

\* C26: among matching rules of equal priority that target existing leaves,
\* match_transaction selects the one with the highest resolved confidence, and
\* when priority and confidence are both equal the one that comes first in
\* the rule list. Stated for the matching rules of the highest priority.
C26_EqualPriorityTieBreak ==
    (Matched /\ Cardinality(TopPriorityRules) >= 2)
        => /\ tx.matched_account = Target(rm.rules[FirstBest(TopPriorityRules)])
           /\ tx.match_confidence = Resolved(rm.rules[FirstBest(TopPriorityRules)])

\* C26 restricted to rule lists whose matching rules of the highest priority
\* have a priority of -1 or above (a diagnostic, not the claim).
EqualPriorityTieBreakFromMinusOne ==
    (\E k \in TopPriorityRules : rm.rules[k].priority >= -1)
        => C26_EqualPriorityTieBreak

\* C30: for every rule list and every integer priority, if some rule's
\* condition holds on the mapping-substituted description of an unmatched
\* transaction and its account_number resolves to a leaf, the transaction is
\* matched after match_transaction.
C30_SomeRuleMatches ==
    (Matched /\ ~is_matched(pre) /\ MatchingRules # {}) => is_matched(tx)

\* C30 restricted to rule lists in which some matching rule has a priority of
\* -1 or above (a diagnostic, not the claim).
SomeRuleMatchesFromMinusOne ==
    (\E k \in MatchingRules : rm.rules[k].priority >= -1) => C30_SomeRuleMatches

----------------------------------------------------------------------------
(* Claims about the matchers on one transaction (SpecMatchers) *)

\* C12: whatever RuleMatcher.match_transaction and LLMMatcher.match_transaction
\* calls have been made on a transaction, its matched_account, if any, and
\* every account in its alternative_matches is a leaf of the chart.
C12_OnlyLeaves ==
    /\ tx.matched_account # None => Chart[tx.matched_account].children = <<>>
    /\ \A k \in 1..Len(tx.alternative_matches) :
          Chart[tx.alternative_matches[k][1]].children = <<>>

\* The RuleMatcher, whose rule on the description targets the non-leaf 1000,
\* has just run on a transaction that the LLMMatcher gave a match and an
\* alternative.
C12_Witness ==
    /\ rpc = "done"
    /\ \E k \in 1..Len(rm.rules) :
          /\ rm.rules[k].account_number = <<1, 0, 0, 0>>
          /\ rm.rules[k].condition_type = "description_contains"
    /\ tx.matched_account # None
    /\ tx.alternative_matches # <<>>

\* The lines of the output the last LLM call received.
ResponseLines == split_lines(llm.llm_output)

\* The call got no output: no client, a failed call, an empty answer.
NoOutput == ~llm.client \/ llm.llm_output = <<>>

FewerThanTwoLines == Len(ResponseLines) < 2

\* Line 1 is not the number of an existing leaf account.
BadAccountLine ==
    ~\E a \in Leaves : Chart[a].number = strip(ResponseLines[1])

\* Line 2 is not an integer in 0..100.
BadConfidenceLine ==
    LET c == strip(ResponseLines[2])
    IN  ~(is_digit_string(c) /\ int(c) \in 0..100)

\* C18: when the external call fails or the response is malformed (no output,
\* fewer than two lines, an account line that is not the number of an existing
\* leaf, a confidence line that is not an integer in 0..100),
\* LLMMatcher.match_transaction leaves the match state of the transaction
\* unchanged.
C18_FailureNoChange ==
    ( /\ llm.called
      /\ \/ NoOutput
         \/ FewerThanTwoLines
         \/ BadAccountLine
         \/ BadConfidenceLine )
        => tx = pre

\* C18 without its last case (a diagnostic, not the claim): no output, fewer
\* than two lines or a bad account line leave the match state unchanged.
FailureNoChangeButConfidence ==
    (llm.called /\ (NoOutput \/ FewerThanTwoLines \/ BadAccountLine)) => tx = pre

----------------------------------------------------------------------------
(* More claims about MatchingEngine (SpecEngine) *)

\* C13: process_transactions on an engine with no primary matcher fails, and
\* fails only then; having failed it has called no matcher and every
\* transaction of the batch is as it was given.
C13_NoPrimaryFails ==
    /\ (run.pc # "idle" /\ eng.primary_matcher = None) => run.pc = "failed"
    /\ run.pc = "failed" =>
          /\ eng.primary_matcher = None
          /\ run.primary_calls = <<>> /\ run.secondary_calls = <<>>
          /\ ~run.secondary_invoked
          /\ run.returned = <<>>
          /\ txs = run.start

\* process_transactions failed on a batch that holds an unmatched transaction
\* for which a matcher has a proposal.
C13_Witness ==
    /\ run.pc = "failed"
    /\ \E k \in TxIndex, m \in Matchers :
          txs[k] = FreshTx /\ matchers[m][k].kind = "match"

\* What one match_transaction call of the primary matcher makes of
\* transaction k as the batch holds it at the start.
Pass1Result(k) ==
    LET o == matchers[eng.primary_matcher][k]
    IN  IF run.start[k].matched_account = None /\ o.kind = "match"
        THEN [ matched_account     |-> o.account,
               match_confidence    |-> o.confidence,
               match_source        |-> MatcherSource[eng.primary_matcher],
               alternative_matches |-> <<>> ]
        ELSE run.start[k]

\* C15: when the primary matcher raises on a transaction of the batch,
\* process_transactions does not fail: the transactions before the failing
\* one keep the match state Pass 1 gave them (the others are as they were
\* given), Pass 2 runs on the selection when a secondary matcher is
\* registered, and the batch is returned.
C15_PrimaryFailureContained ==
    (run.primary_raised /\ Selected) =>
        /\ \A k \in TxIndex :
              run.after_pass1[k] = IF k < C7_Stop THEN Pass1Result(k) ELSE run.start[k]
        /\ IF eng.secondary_matcher # None /\ C5_Subset # {}
           THEN run.secondary_invoked /\ Range(run.secondary_input) = C5_Subset
           ELSE ~run.secondary_invoked
        /\ run.pc = "done" => run.returned = [k \in TxIndex |-> k]

\* The primary matcher matched the first transaction and raised on a later
\* one; the secondary matcher was then called and the run returned.
C15_Witness ==
    /\ run.pc = "done"
    /\ run.primary_raised
    /\ run.start[1].matched_account = None
    /\ run.after_pass1[1].matched_account # None
    /\ run.secondary_calls # <<>>

\* C16: Pass 2 leaves the match state of every transaction that is matched
\* with a confidence at or above the threshold after Pass 1 as Pass 1 left it.
C16_Pass2Frame ==
    Selected =>
        \A k \in TxIndex :
            ( /\ run.after_pass1[k].matched_account # None
              /\ run.after_pass1[k].match_confidence >= run.threshold )
            => txs[k] = run.after_pass1[k]

\* Pass 2 has called the secondary matcher, which also has a proposal for a
\* transaction that Pass 1 left matched at or above the threshold.
C16_Witness ==
    /\ run.pc = "done"
    /\ run.secondary_calls # <<>>
    /\ \E k \in TxIndex :
          /\ run.after_pass1[k].matched_account # None
          /\ run.after_pass1[k].match_confidence >= run.threshold
          /\ matchers[eng.secondary_matcher][k].kind = "match"
          /\ matchers[eng.secondary_matcher][k].confidence
                 > run.after_pass1[k].match_confidence

\* C17: the list process_transactions returns is the batch it was given: the
\* same transactions in the same order, whatever the matchers did (matched,
\* did nothing, raised).
C17_SameList ==
    /\ Len(txs) = NumTx
    /\ run.pc = "done" => run.returned = [k \in TxIndex |-> k]
    /\ run.pc # "done" => run.returned = <<>>

\* process_transactions returned after Pass 2 ran on a part of the batch only
\* and ended on a raise of the secondary matcher.
C17_Witness ==
    /\ run.pc = "done"
    /\ run.secondary_invoked
    /\ Len(run.secondary_input) < NumTx
    /\ \E k \in Range(run.secondary_calls) :
          matchers[eng.secondary_matcher][k].kind = "raise"

----------------------------------------------------------------------------
(* SpecAdd: sequences of MatchingEngine.add_matcher calls *)

\* add_matcher calls made on one engine.
MaxAdds == 4

\* The Matcher objects passed to add_matcher.
AddedMatchers == {"M1", "M2", "M3"}

InitAdd ==
    /\ tx = FreshTx
    /\ pre = FreshTx
    /\ call = NoCall
    /\ IdleRule
    /\ llm = NoLLMCall
    /\ review = NoReview
    /\ rules_file = NoFile
    /\ IdleStores
    /\ eng = NewEngine
    /\ matchers = <<>>
    /\ txs = <<>>
    /\ run = IdleRun
    /\ added = <<>>

\* engine.add_matcher(m)
AddMatcherCall(m) ==
    /\ Len(added) < MaxAdds
    /\ eng' = add_matcher(eng, m)
    /\ added' = Append(added, m)
    /\ UNCHANGED <<tx, pre, call, rm, rpc, llm, matchers, txs, run, review, rules_file,
                 saved, ms, cc, coa>>

NextAdd == \E m \in AddedMatchers : AddMatcherCall(m)

SpecAdd == InitAdd /\ [][NextAdd]_vars

\* C14: after any sequence of add_matcher calls the primary matcher is the
\* matcher of the first call and the secondary matcher that of the second
\* call (none while there was no such call), whatever calls came later.
C14_FirstTwoStay ==
    /\ eng.primary_matcher = IF Len(added) >= 1 THEN added[1] ELSE None
    /\ eng.secondary_matcher = IF Len(added) >= 2 THEN added[2] ELSE None

\* A third and a fourth call, with matchers other than the first two, made.
C14_Witness ==
    /\ Len(added) = 4
    /\ added[3] \notin {added[1], added[2]}
    /\ added[4] \notin {added[1], added[2]}
    /\ added[1] # added[2]

----------------------------------------------------------------------------
(* SpecReview: Transaction.needs_review *)

\* The confidence below which a match needs review, and the margin within
\* which an alternative counts as similar.
REVIEW_CONFIDENCE == 70
SIMILAR_MARGIN == 10

\* The confidences c (in hundredths) for which the float c - 0.1 is below the
\* float nearest to the decimal c - 0.10; for the others it is equal or above,
\* and never as low as the next hundredth.
RoundsBelow == {11, 12, 15, 18, 21, 24, 29, 30, 35, 41, 42, 43, 44}

\* confidence > self.match_confidence - 0.1, on floats.
is_similar(confidence, match_confidence) ==
    \/ confidence > match_confidence - SIMILAR_MARGIN
    \/ /\ confidence = match_confidence - SIMILAR_MARGIN
       /\ match_confidence \in RoundsBelow

needs_review_NoAlternatives(t) ==
    IF ~is_matched(t) THEN TRUE ELSE t.match_confidence < REVIEW_CONFIDENCE

\* Transaction.needs_review
needs_review(t) ==
    IF ~is_matched(t) THEN TRUE
    ELSE IF t.match_confidence < REVIEW_CONFIDENCE THEN TRUE
    ELSE \E k \in 1..Len(t.alternative_matches) :
             is_similar(t.alternative_matches[k][2], t.match_confidence)

\* Alternatives of the transactions needs_review is read on.
MaxReviewAlternatives == 2

\* Confidences on both sides of 0.70, and pairs 0.10 and less than 0.10 apart
\* (0.30 and 0.20 being a pair the float subtraction rounds below).
ReviewConfidences == {20, 30, 65, 69, 70, 72, 75, 82, 85}

\* The accounts of the alternatives, by position.
ReviewAlternativeAccounts == <<"A4", "A5", "A6">>

\* Alternative lists as add_match leaves them: sorted by confidence descending.
ReviewAlternatives ==
    { [k \in 1..Len(c) |-> <<ReviewAlternativeAccounts[k], c[k]>>] :
          c \in UNION {[1..n -> ReviewConfidences] : n \in 0..MaxReviewAlternatives} }

\* The match states: unmatched, or matched to 1100 with alternatives of no
\* higher confidence.
ReviewStates ==
    {FreshTx} \cup
    { [ matched_account     |-> "A2",
        match_confidence    |-> c,
        match_source        |-> "RULE",
        alternative_matches |-> alts ] :
          c \in ReviewConfidences, alts \in ReviewAlternatives }

InitReview ==
    /\ tx \in ReviewStates
    /\ \A k \in 1..Len(tx.alternative_matches) :
          /\ tx.alternative_matches[k][2] <= tx.match_confidence
          /\ k > 1 => tx.alternative_matches[k][2] <= tx.alternative_matches[k - 1][2]
    /\ pre = tx
    /\ call = NoCall
    /\ IdleRule
    /\ IdleEngine
    /\ llm = NoLLMCall
    /\ added = <<>>
    /\ review = NoReview
    /\ rules_file = NoFile
    /\ IdleStores

\* transaction.needs_review
ReadNeedsReview ==
    /\ ~review.done
    /\ review' = [done |-> TRUE, needs_review |-> needs_review(tx)]
    /\ UNCHANGED <<tx, pre, call, rm, rpc, llm, eng, matchers, txs, run, added, rules_file,
                 saved, ms, cc, coa>>

NextReview == ReadNeedsReview

SpecReview == InitReview /\ [][NextReview]_vars

\* C19: needs_review is true exactly when the transaction is unmatched, or its
\* confidence is below 0.70, or some alternative's confidence is strictly
\* above the primary confidence minus 0.10.
C19_NeedsReview ==
    review.done =>
        ( review.needs_review <=>
            \/ tx.matched_account = None
            \/ tx.match_confidence < 70
            \/ \E k \in 1..Len(tx.alternative_matches) :
                   tx.alternative_matches[k][2] > tx.match_confidence - 10 )

\* needs_review read as true on a match at 0.85 with an alternative at 0.82.
C19_Witness ==
    /\ review.done
    /\ review.needs_review
    /\ tx.match_confidence = 85
    /\ Len(tx.alternative_matches) = 1
    /\ tx.alternative_matches[1][2] = 82

----------------------------------------------------------------------------
(* SpecLoad: RuleMatcher.__init__ on a rules file, then match_transaction *)

\* Rules in a rules file.
MaxFileRules == 2

\* Records of a rules file: rules to a leaf with no, a valid (0.97) and an
\* out-of-range (1.50) confidence, and records lacking the priority key.
FileRules ==
    { [condition_type |-> "description_contains", condition_value |-> <<7>>,
       account_number |-> <<1, 1, 0, 0>>, priority |-> 10],
      [condition_type |-> "description_equals", condition_value |-> <<7>>,
       account_number |-> <<1, 2, 1, 0>>, priority |-> 20, confidence |-> 97],
      [condition_type |-> "description_contains", condition_value |-> <<7>>,
       account_number |-> <<1, 3, 0, 0>>, priority |-> 30, confidence |-> 150],
      [condition_type |-> "description_contains", condition_value |-> <<7>>,
       account_number |-> <<2, 0, 0, 0>>],
      [condition_type |-> "description_contains", condition_value |-> <<7>>,
       account_number |-> <<2, 0, 0, 0>>, confidence |-> 97] }

\* What rule_store_path holds: nothing, text that is not JSON, a JSON object
\* (the format RuleStore.save writes), or a JSON list of rule records (the
\* format _load_or_initialize_rules validates).
RuleFiles ==
    { NoFile,
      [kind |-> "malformed", rules |-> <<>>],
      [kind |-> "object", rules |-> <<>>] }
    \cup
    { [kind |-> "list", rules |-> rules] :
          rules \in UNION {[1..n -> FileRules] : n \in 0..MaxFileRules} }

\* RuleStore.load: {} when there is no file, None when the text is not JSON or
\* when the JSON is a list (rules_data.items() raises, which the last except
\* turns into None), else the dict of the file's object (every [pattern,
\* confidence] item of the files considered is a two-element list of a string
\* and a number, so none is skipped).
RuleStore_load(file) ==
    IF file.kind = "missing" THEN [type |-> "dict", rules |-> <<>>]
    ELSE IF file.kind = "malformed" THEN [type |-> "None", rules |-> <<>>]
    ELSE IF file.kind = "list" THEN [type |-> "None", rules |-> <<>>]
    ELSE [type |-> "dict", rules |-> file.rules]

required_keys == {"condition_type", "condition_value", "account_number", "priority"}

\* RuleMatcher._load_or_initialize_rules, given what rule_store.load() returned.
_load_or_initialize_rules(loaded_rules) ==
    IF loaded_rules.type = "None" THEN <<>>
    ELSE IF loaded_rules.type = "list"
    THEN SelectSeq(loaded_rules.rules, LAMBDA rule : required_keys \subseteq DOMAIN rule)
    ELSE <<>>

InitLoad ==
    /\ tx = FreshTx
    /\ pre = FreshTx
    /\ call = NoCall
    /\ IdleEngine
    /\ llm = NoLLMCall
    /\ added = <<>>
    /\ review = NoReview
    /\ rules_file \in RuleFiles
    /\ IdleStores
    /\ rpc = "new"
    /\ \E description \in Descriptions :
          \E mappings \in MappingsFor(description) :
              rm = [ rules                |-> <<>>,
                     description_mappings |-> mappings,
                     description          |-> description ]

\* RuleMatcher(chart, rule_store_path, mapping_store_path)
Construct ==
    /\ rpc = "new"
    /\ rm' = [rm EXCEPT !.rules = _load_or_initialize_rules(RuleStore_load(rules_file))]
    /\ rpc' = "ready"
    /\ UNCHANGED <<tx, pre, call, llm, eng, matchers, txs, run, added, review, rules_file,
                 saved, ms, cc, coa>>

NextLoad ==
    \/ Construct
    \/ MatchTransaction

SpecLoad == InitLoad /\ [][NextLoad]_vars

\* A record that has the required fields and a confidence that, if present,
\* is in [0, 1].
IsValidRecord(rule) ==
    /\ {"condition_type", "condition_value", "account_number", "priority"}
           \subseteq DOMAIN rule
    /\ "confidence" \in DOMAIN rule => rule.confidence \in 0..100

\* C20: the rules of a RuleMatcher constructed on a file of rule records are
\* the records of the file that have the required fields and no out-of-range
\* confidence, in file order: the invalid records are dropped at load, the
\* others remain.
C20_InvalidDroppedAtLoad ==
    (rpc \in {"ready", "done"} /\ rules_file.kind = "list")
        => rm.rules = SelectSeq(rules_file.rules, IsValidRecord)

\* What _load_or_initialize_rules would make of a list, had the store
\* returned one (a diagnostic, not the claim): the record with confidence 1.50
\* is kept.
OutOfRangeKeptFromList ==
    LET rule == [condition_type |-> "description_contains", condition_value |-> <<7>>,
                 account_number |-> <<1, 3, 0, 0>>, priority |-> 30, confidence |-> 150]
    IN  _load_or_initialize_rules([type |-> "list", rules |-> <<rule>>]) = <<rule>>

----------------------------------------------------------------------------
(* The LLM result against an existing match (SpecMatchers) *)

\* The call obtained the number of an existing leaf and a confidence in 0..100.
LLMObtainedValid ==
    /\ llm.called
    /\ ~NoOutput
    /\ ~FewerThanTwoLines
    /\ ~BadAccountLine
    /\ ~BadConfidenceLine

\* The account and the confidence the LLM answered.
LLMAccount == find_account(strip(ResponseLines[1]))

LLMConfidence == int(strip(ResponseLines[2]))

\* C27: when LLMMatcher.match_transaction obtains a valid leaf account with a
\* confidence equal to the already-matched transaction's match_confidence, the
\* LLM result overwrites the existing match: match_source becomes LLM and the
\* primary account becomes the LLM's account.
C27_LLMOverwritesOnEqual ==
    ( /\ LLMObtainedValid
      /\ is_matched(pre)
      /\ LLMConfidence = pre.match_confidence )
        => /\ tx.match_source = "LLM"
           /\ tx.matched_account = LLMAccount

\* The same with a confidence strictly above the current one (a diagnostic,
\* not the claim).
LLMOverwritesWhenHigher ==
    ( /\ LLMObtainedValid
      /\ is_matched(pre)
      /\ LLMConfidence > pre.match_confidence )
        => /\ tx.match_source = "LLM"
           /\ tx.matched_account = LLMAccount

----------------------------------------------------------------------------
(* More claims about add_match (Spec) *)

HeldAccounts ==
    {tx.alternative_matches[k][1] : k \in 1..Len(tx.alternative_matches)}
        \cup (IF tx.matched_account = None THEN {} ELSE {tx.matched_account})

\* C28: the accounts held as primary match and as alternatives are pairwise
\* distinct: no account twice among the alternatives, and the primary account
\* not among them.
C28_HeldDistinct ==
    Cardinality(HeldAccounts)
        = Len(tx.alternative_matches) + (IF tx.matched_account = None THEN 0 ELSE 1)

\* C29: from a fresh transaction on, every alternative has a confidence less
\* than or equal to the primary match_confidence.
C29_AlternativesBelowPrimary ==
    \A k \in 1..Len(tx.alternative_matches) :
        tx.alternative_matches[k][2] <= tx.match_confidence

\* A call added an alternative whose confidence equals the primary's, next to
\* lower ones.
C29_Witness ==
    /\ Called
    /\ Len(tx.alternative_matches) >= 2
    /\ tx.alternative_matches # pre.alternative_matches
    /\ tx.alternative_matches[1][2] = tx.match_confidence
    /\ tx.alternative_matches[2][2] < tx.match_confidence

----------------------------------------------------------------------------
(* RuleStore.save, then a fresh RuleMatcher on the same file (SpecStore) *)

\* (pattern, confidence) entries an account has in a saved dict.
MaxSavedPatterns == 1

SavedPatterns == {<<<<7>>, 90>>, <<<<7, 8>>, 95>>}

PatternLists == UNION {[1..n -> SavedPatterns] : n \in 0..MaxSavedPatterns}

\* Rules in the format RuleStore.save is written for:
\* {account_number: [(pattern, confidence), ...]}, a dict being the sequence
\* of its items <<account_number, patterns>> with distinct keys.
SavedDicts ==
    { d \in UNION {[1..n -> LeafNumbers \X PatternLists] :
                      n \in 0..Cardinality(LeafNumbers)} :
          \A j, k \in 1..Len(d) : j # k => d[j][1] # d[k][1] }

\* Lists of rule dicts, the format of RuleMatcher.rules.
SavedLists == UNION {[1..n -> FileRules] : n \in 0..MaxFileRules}

\* RuleStore.save: the file afterwards, and whether the call raised. The dict
\* comprehension over rules.items() runs before the try block, so a list makes
\* the call raise AttributeError before the file is opened.
RuleStore_save(file, rules) ==
    IF rules.kind = "dict"
    THEN [file |-> [kind |-> "object", rules |-> rules.rules], raised |-> FALSE]
    ELSE [file |-> file, raised |-> TRUE]

InitStore ==
    /\ tx = FreshTx
    /\ pre = FreshTx
    /\ call = NoCall
    /\ IdleEngine
    /\ llm = NoLLMCall
    /\ added = <<>>
    /\ review = NoReview
    /\ rules_file \in RuleFiles
    /\ saved = NoSave
    /\ ms = NoMappingStore
    /\ cc = NoConfidenceCall
    /\ coa = NoChartQuery
    /\ rpc = "new"
    /\ rm = [rules |-> <<>>, description_mappings |-> <<>>, description |-> <<7>>]

\* RuleStore(rule_store_path).save(rules), before the matcher is constructed
Save(rules) ==
    /\ rpc = "new"
    /\ ~saved.done
    /\ rules_file' = RuleStore_save(rules_file, rules).file
    /\ saved' = [done |-> TRUE, raised |-> RuleStore_save(rules_file, rules).raised,
                 kind |-> rules.kind, rules |-> rules.rules]
    /\ UNCHANGED <<tx, pre, call, rm, rpc, llm, eng, matchers, txs, run, added, review,
                   ms, cc, coa>>

NextStore ==
    \/ \E d \in SavedDicts : Save([kind |-> "dict", rules |-> d])
    \/ \E l \in SavedLists : Save([kind |-> "list", rules |-> l])
    \/ Construct

SpecStore == InitStore /\ [][NextStore]_vars

\* A rule of the matcher is the saved entry (pattern, confidence) of an account.
Represents(rule, account_number, entry) ==
    /\ rule.account_number = account_number
    /\ rule.condition_value = entry[1]
    /\ "confidence" \in DOMAIN rule
    /\ rule.confidence = entry[2]

\* The matcher's rule set equals the saved one, order disregarded.
RoundTripEqual ==
    /\ \A i \in 1..Len(saved.rules) : \A k \in 1..Len(saved.rules[i][2]) :
          \E j \in RuleIndex :
              Represents(rm.rules[j], saved.rules[i][1], saved.rules[i][2][k])
    /\ \A j \in RuleIndex :
          \E i \in 1..Len(saved.rules) : \E k \in 1..Len(saved.rules[i][2]) :
              Represents(rm.rules[j], saved.rules[i][1], saved.rules[i][2][k])

\* C21: a rule collection saved through the rule store and then loaded by a
\* fresh RuleMatcher on the same file yields a matcher whose rule set equals
\* the saved one, compared without regard to order.
C21_RoundTrip ==
    (saved.done /\ ~saved.raised /\ rpc = "ready") => RoundTripEqual

\* What RuleStore.load gives after a save is the saved dict (a diagnostic, not
\* the claim).
StoreRoundTrip ==
    (saved.done /\ ~saved.raised)
        => /\ RuleStore_load(rules_file).type = "dict"
           /\ RuleStore_load(rules_file).rules = saved.rules

\* A fresh RuleMatcher has no rules, whatever was saved (a diagnostic).
FreshMatcherHasNoRules == rpc = "ready" => rm.rules = <<>>

----------------------------------------------------------------------------
(* MappingStore (SpecMapping) *)

\* add_mapping and save calls made on the store.
MaxMappingCalls == 3

\* Transaction descriptions and account numbers, as the strings the store
\* keeps (it never looks inside them).
MappingDescriptions == {"COFFEE", "RENT"}

MappingNumbers == {"1100", "1210"}

\* Dict[str, str] values.
MappingDicts == UNION {[S -> MappingNumbers] : S \in SUBSET MappingDescriptions}

EmptyMapping == [d \in {} |-> ""]

\* The file at mapping_store_path: missing, holding a JSON object of strings,
\* or invalid (not JSON, or not a dict of strings).
MappingFiles ==
    { [kind |-> "missing", mappings |-> EmptyMapping],
      [kind |-> "invalid", mappings |-> EmptyMapping] }
    \cup
    { [kind |-> "valid", mappings |-> m] : m \in MappingDicts }

\* MappingStore.load: {} for a missing file, None for an invalid one.
MappingStore_load(file) ==
    IF file.kind = "missing" THEN [type |-> "dict", mappings |-> EmptyMapping]
    ELSE IF file.kind = "invalid" THEN [type |-> "None", mappings |-> EmptyMapping]
    ELSE [type |-> "dict", mappings |-> file.mappings]

\* MappingStore.save: the file afterwards.
MappingStore_save(file, mappings) == [kind |-> "valid", mappings |-> mappings]

MappingStore_add_mapping_OnlyNew(file, description, account_number) ==
    MappingStore_save(file, [d \in {description} |-> account_number])

\* MappingStore.add_mapping: the file afterwards.
MappingStore_add_mapping(file, description, account_number) ==
    LET mappings == MappingStore_load(file)
    IN  IF mappings.type = "None" THEN file
        ELSE MappingStore_save(file,
                 [d \in DOMAIN mappings.mappings \cup {description} |->
                     IF d = description THEN account_number
                     ELSE mappings.mappings[d]])

InitMapping ==
    /\ tx = FreshTx
    /\ pre = FreshTx
    /\ call = NoCall
    /\ IdleRule
    /\ IdleEngine
    /\ llm = NoLLMCall
    /\ added = <<>>
    /\ review = NoReview
    /\ rules_file = NoFile
    /\ saved = NoSave
    /\ cc = NoConfidenceCall
    /\ coa = NoChartQuery
    /\ \E file \in MappingFiles :
          ms = [ op     |-> "init",
                 file   |-> file,           \* the file now
                 base   |-> file,           \* the file at the start or after the last save
                 adds   |-> <<>>,           \* add_mapping calls since then, in order
                 calls  |-> 0,              \* add_mapping and save calls made
                 loaded |-> [type |-> "None", mappings |-> EmptyMapping] ]

\* store.add_mapping(description, account_number)
AddMapping(description, account_number) ==
    /\ ms.op # "none"
    /\ ms.calls < MaxMappingCalls
    /\ ms' = [ms EXCEPT !.op = "add_mapping",
                        !.file = MappingStore_add_mapping(@, description, account_number),
                        !.adds = Append(@, <<description, account_number>>),
                        !.calls = @ + 1]
    /\ UNCHANGED <<tx, pre, call, rm, rpc, llm, eng, matchers, txs, run, added, review,
                   rules_file, saved, cc, coa>>

\* store.save(mappings)
SaveMappings(mappings) ==
    /\ ms.op # "none"
    /\ ms.calls < MaxMappingCalls
    /\ ms' = [ms EXCEPT !.op = "save",
                        !.file = MappingStore_save(@, mappings),
                        !.base = MappingStore_save(ms.file, mappings),
                        !.adds = <<>>,
                        !.calls = @ + 1]
    /\ UNCHANGED <<tx, pre, call, rm, rpc, llm, eng, matchers, txs, run, added, review,
                   rules_file, saved, cc, coa>>

\* store.load()
LoadMappings ==
    /\ ms.op \in {"init", "add_mapping", "save"}
    /\ ms' = [ms EXCEPT !.op = "load", !.loaded = MappingStore_load(ms.file)]
    /\ UNCHANGED <<tx, pre, call, rm, rpc, llm, eng, matchers, txs, run, added, review,
                   rules_file, saved, cc, coa>>

NextMapping ==
    \/ \E description \in MappingDescriptions, account_number \in MappingNumbers :
          AddMapping(description, account_number)
    \/ \E mappings \in MappingDicts : SaveMappings(mappings)
    \/ LoadMappings

SpecMapping == InitMapping /\ [][NextMapping]_vars

\* The descriptions added since the start or the last save, and the account
\* number of the last add_mapping call for one of them.
AddedDescriptions == {ms.adds[k][1] : k \in 1..Len(ms.adds)}

LastAdded(description) ==
    LET k == CHOOSE k \in 1..Len(ms.adds) :
                 /\ ms.adds[k][1] = description
                 /\ \A j \in (k + 1)..Len(ms.adds) : ms.adds[j][1] # description
    IN  ms.adds[k][2]

\* C22: starting from a missing or valid mapping file, after any sequence of
\* add_mapping calls load() returns the previous mappings with each added
\* description mapped to the account number of the last add_mapping call for
\* it, the entries for other descriptions preserved; and load() after save(m)
\* returns m.
C22_MappingStore ==
    (ms.op = "load" /\ ms.base.kind # "invalid")
        => /\ ms.loaded.type = "dict"
           /\ DOMAIN ms.loaded.mappings = DOMAIN ms.base.mappings \cup AddedDescriptions
           /\ \A d \in AddedDescriptions : ms.loaded.mappings[d] = LastAdded(d)
           /\ \A d \in DOMAIN ms.base.mappings \ AddedDescriptions :
                 ms.loaded.mappings[d] = ms.base.mappings[d]
           /\ ms.adds = <<>> => ms.loaded.mappings = ms.base.mappings

\* load() after a save and two add_mapping calls: one that adds a description,
\* one that updates it; the entry of the saved dict is preserved.
C22_Witness ==
    /\ ms.op = "load"
    /\ ms.base = [kind |-> "valid", mappings |-> [d \in {"COFFEE"} |-> "1100"]]
    /\ ms.adds = <<<<"RENT", "1100">>, <<"RENT", "1210">>>>
    /\ ms.loaded.mappings = [d \in {"COFFEE", "RENT"} |->
                                IF d = "COFFEE" THEN "1100" ELSE "1210"]

----------------------------------------------------------------------------
(* calculate_rule_based_confidence (SpecConfidence) *)

\* Letters in both cases: a, b, A, B.
LowerA == 20

LowerB == 21

UpperA == 30

UpperB == 31

\* str.lower
lower(s) ==
    [k \in 1..Len(s) |-> IF s[k] = UpperA THEN LowerA
                         ELSE IF s[k] = UpperB THEN LowerB
                         ELSE s[k]]

\* re.fullmatch(re.escape(pattern), description, re.IGNORECASE): the pattern
\* is escaped, so it matches only its own text, in either case.
fullmatch_ignorecase(pattern, description) == lower(pattern) = lower(description)

\* re.search(re.escape(pattern), description)
search(pattern, description) == Contains(pattern, description)

\* min(1.0, x) and max(0.0, x), in hundredths.
min1(x) == IF x > 100 THEN 100 ELSE x

max0(x) == IF x < 0 THEN 0 ELSE x

calculate_rule_based_confidence_NoBoost(description, account, matched_rule) ==
    IF matched_rule = <<>> THEN 0 ELSE max0(min1(matched_rule[2]))

\* calculate_rule_based_confidence(transaction, account, matched_rule), the
\* empty tuple standing for matched_rule = None.
calculate_rule_based_confidence(description, account, matched_rule) ==
    IF matched_rule = <<>> THEN 0
    ELSE LET pattern == matched_rule[1]
             base_confidence == matched_rule[2]
             confidence ==
                 IF /\ lower(pattern) = lower(account.name)
                    /\ fullmatch_ignorecase(pattern, description)
                 THEN min1(base_confidence + 10)
                 ELSE IF pattern = account.number /\ search(pattern, description)
                 THEN min1(base_confidence + 5)
                 ELSE base_confidence
         IN  max0(min1(confidence))

\* Accounts: named "Ab" with number "12", and one whose name is its number.
ConfidenceAccounts ==
    { [name |-> <<UpperA, LowerB>>, number |-> <<1, 2>>],
      [name |-> <<1, 2>>,           number |-> <<1, 2>>] }

\* Rule patterns: the name in three casings, the number, a part of the name.
ConfidencePatterns ==
    { <<LowerA, LowerB>>, <<UpperA, UpperB>>, <<UpperA, LowerB>>, <<1, 2>>, <<LowerA>> }

\* Descriptions: the name in two casings, the name inside a longer text, the
\* number alone and inside a text, a text with neither.
ConfidenceDescriptions ==
    { <<UpperA, LowerB>>, <<LowerA, UpperB>>, <<LowerA, LowerB, SP, 1>>,
      <<1, 2>>, <<LowerB, 1, 2, LowerB>>, <<LowerB, LowerA>> }

\* Base confidences of a rule, two of them outside [0, 1].
BaseConfidences == {-10, 0, 50, 90, 95, 96, 100, 120}

MatchedRules == {<<>>} \cup (ConfidencePatterns \X BaseConfidences)

InitConfidence ==
    /\ tx = FreshTx
    /\ pre = FreshTx
    /\ call = NoCall
    /\ IdleRule
    /\ IdleEngine
    /\ llm = NoLLMCall
    /\ added = <<>>
    /\ review = NoReview
    /\ rules_file = NoFile
    /\ saved = NoSave
    /\ ms = NoMappingStore
    /\ coa = NoChartQuery
    /\ cc = NoConfidenceCall

\* calculate_rule_based_confidence(transaction, account, matched_rule)
Calculate(description, account, matched_rule) ==
    /\ cc' = [ called       |-> TRUE,
               description  |-> description,
               account      |-> account,
               matched_rule |-> matched_rule,
               result       |-> calculate_rule_based_confidence(description, account,
                                                                matched_rule) ]
    /\ UNCHANGED <<tx, pre, call, rm, rpc, llm, eng, matchers, txs, run, added, review,
                   rules_file, saved, ms, coa>>

NextConfidence ==
    \E description \in ConfidenceDescriptions, account \in ConfidenceAccounts,
       matched_rule \in MatchedRules :
        Calculate(description, account, matched_rule)

SpecConfidence == InitConfidence /\ [][NextConfidence]_vars

\* A string with its letters in one case.
Caseless(s) ==
    [k \in 1..Len(s) |-> IF s[k] \in {LowerA, UpperA} THEN UpperA
                         ELSE IF s[k] \in {LowerB, UpperB} THEN UpperB
                         ELSE s[k]]

\* The pattern is the account name and the whole description, case disregarded.
NameBoost ==
    /\ Caseless(cc.matched_rule[1]) = Caseless(cc.account.name)
    /\ Caseless(cc.description) = Caseless(cc.matched_rule[1])

\* The pattern is the account number and occurs in the description.
NumberBoost ==
    /\ cc.matched_rule[1] = cc.account.number
    /\ \E k \in 0..(Len(cc.description) - Len(cc.account.number)) :
          SubSeq(cc.description, k + 1, k + Len(cc.account.number)) = cc.account.number

\* Base confidence plus the boost of the claim.
Boosted ==
    cc.matched_rule[2] + (IF NameBoost THEN 10 ELSE IF NumberBoost THEN 5 ELSE 0)

\* C23 as stated: 0.0 when no rule matched; otherwise the base confidence plus
\* 0.10 when the pattern equals the account name case-insensitively and the
\* whole description equals the pattern case-insensitively, else plus 0.05
\* when the pattern equals the account number and the number occurs in the
\* description, else plus nothing; and the result lies in [0.0, 1.0].
C23_Original ==
    cc.called =>
        /\ cc.matched_rule = <<>> => cc.result = 0
        /\ cc.matched_rule # <<>> => cc.result = Boosted
        /\ cc.result \in 0..100

\* C23: the same sum, limited to [0.0, 1.0]: a sum above 1.0 gives 1.0 and a
\* sum below 0.0 gives 0.0.
C23_Amended ==
    cc.called =>
        /\ cc.matched_rule = <<>> => cc.result = 0
        /\ cc.matched_rule # <<>> =>
              cc.result = (IF Boosted > 100 THEN 100 ELSE IF Boosted < 0 THEN 0 ELSE Boosted)
        /\ cc.result \in 0..100

\* Pattern "AB", account named "Ab", description "aB", base confidence 0.95:
\* the boosted sum 1.05 is returned as 1.0.
C23_Witness ==
    /\ cc.called
    /\ cc.matched_rule = <<<<UpperA, UpperB>>, 95>>
    /\ cc.account.name = <<UpperA, LowerB>>
    /\ cc.description = <<LowerA, UpperB>>
    /\ cc.result = 100

----------------------------------------------------------------------------
(* ChartOfAccounts over bounded charts (SpecChart) *)

\* Accounts in a chart.
MaxAccounts == 4

\* The accounts of a chart are the first n of these; a chart is its accounts
\* (number and child list of each) and its list of roots.
AccountIds == <<"A1", "A2", "A3", "A4", "A5", "A6">>

\* Account numbers in a chart (numbers may repeat), and a number asked for
\* that no chart holds.
ChartNumbers == {"1000", "1100"}

AbsentNumber == "9999"

RECURSIVE OrderedIds(_, _)
\* The accounts with the given indices as a list, by ascending or descending
\* index.
OrderedIds(S, order) ==
    IF S = {} THEN <<>>
    ELSE LET m == CHOOSE m \in S :
                      \A j \in S : IF order = "ascending" THEN m <= j ELSE m >= j
         IN  <<AccountIds[m]>> \o OrderedIds(S \ {m}, order)

\* The chart of n accounts in which account k is a child of account parent[k]
\* (a root when parent[k] = 0): what _create_account_from_dict and add_child
\* build from nested JSON.
MakeChart(n, parent, number, order) ==
    [ accounts |->
          [ a \in {AccountIds[k] : k \in 1..n} |->
              LET k == CHOOSE k \in 1..n : AccountIds[k] = a
              IN  [ number   |-> number[k],
                    children |-> OrderedIds({j \in 1..n : parent[j] = k}, order) ] ],
      roots |-> OrderedIds({j \in 1..n : parent[j] = 0}, order) ]

RECURSIVE Account_find_by_number(_, _, _)
RECURSIVE find_in_accounts(_, _, _)
\* The loop of Account.find_by_number over self.children and of
\* ChartOfAccounts.find_account over self.accounts.
find_in_accounts(accounts, list, number) ==
    IF list = <<>> THEN None
    ELSE LET result == Account_find_by_number(accounts, Head(list), number)
         IN  IF result # None THEN result
             ELSE find_in_accounts(accounts, Tail(list), number)

Account_find_by_number_ChildrenFirst(accounts, a, number) ==
    LET result == find_in_accounts(accounts, accounts[a].children, number)
    IN  IF result # None THEN result
        ELSE IF accounts[a].number = number THEN a
        ELSE None

\* Account.find_by_number, on any chart.
Account_find_by_number(accounts, a, number) ==
    IF accounts[a].number = number THEN a
    ELSE find_in_accounts(accounts, accounts[a].children, number)

\* ChartOfAccounts.find_account, on any chart.
ChartOfAccounts_find_account(chart, number) ==
    find_in_accounts(chart.accounts, chart.roots, number)

RECURSIVE _get_leaves(_, _)
RECURSIVE extend_leaves(_, _)
\* _get_leaves of get_leaf_accounts
_get_leaves(accounts, a) ==
    IF Len(accounts[a].children) = 0 THEN <<a>>
    ELSE extend_leaves(accounts, accounts[a].children)

\* leaves.extend(_get_leaves(account)) over a list of accounts.
extend_leaves(accounts, list) ==
    IF list = <<>> THEN <<>>
    ELSE _get_leaves(accounts, Head(list)) \o extend_leaves(accounts, Tail(list))

\* ChartOfAccounts.get_leaf_accounts
get_leaf_accounts(chart) == extend_leaves(chart.accounts, chart.roots)

InitChart ==
    /\ tx = FreshTx
    /\ pre = FreshTx
    /\ call = NoCall
    /\ IdleRule
    /\ IdleEngine
    /\ llm = NoLLMCall
    /\ added = <<>>
    /\ review = NoReview
    /\ rules_file = NoFile
    /\ saved = NoSave
    /\ ms = NoMappingStore
    /\ cc = NoConfidenceCall
    /\ \E n \in 0..MaxAccounts, order \in {"ascending", "descending"} :
          \E parent \in [1..n -> 0..n], number \in [1..n -> ChartNumbers] :
              /\ \A k \in 1..n : parent[k] < k
              /\ coa = [ op     |-> "init",
                         chart  |-> MakeChart(n, parent, number, order),
                         number |-> "",
                         found  |-> None,
                         leaves |-> <<>> ]

\* chart.find_account(number)
FindAccount(number) ==
    /\ coa.op # "none"
    /\ coa' = [coa EXCEPT !.op = "find_account",
                          !.number = number,
                          !.found = ChartOfAccounts_find_account(coa.chart, number)]
    /\ UNCHANGED <<tx, pre, call, rm, rpc, llm, eng, matchers, txs, run, added, review,
                   rules_file, saved, ms, cc>>

\* chart.get_leaf_accounts()
GetLeafAccounts ==
    /\ coa.op # "none"
    /\ coa' = [coa EXCEPT !.op = "get_leaf_accounts",
                          !.leaves = get_leaf_accounts(coa.chart)]
    /\ UNCHANGED <<tx, pre, call, rm, rpc, llm, eng, matchers, txs, run, added, review,
                   rules_file, saved, ms, cc>>

NextChart ==
    \/ \E number \in ChartNumbers \cup {AbsentNumber} : FindAccount(number)
    \/ GetLeafAccounts

SpecChart == InitChart /\ [][NextChart]_vars

RECURSIVE PreOrderOf(_, _)
\* The accounts under a list of accounts in depth-first pre-order: each account
\* before its children, children in child-list order.
PreOrderOf(accounts, list) ==
    IF list = <<>> THEN <<>>
    ELSE <<Head(list)>> \o PreOrderOf(accounts, accounts[Head(list)].children)
                        \o PreOrderOf(accounts, Tail(list))

PreOrder == PreOrderOf(coa.chart.accounts, coa.chart.roots)

\* Positions in the pre-order of the accounts with the number asked for.
Hits == {k \in 1..Len(PreOrder) : coa.chart.accounts[PreOrder[k]].number = coa.number}

ChildlessAccounts ==
    {a \in DOMAIN coa.chart.accounts : coa.chart.accounts[a].children = <<>>}

\* C24: find_account(number) returns none when no account of the tree has
\* that number, and otherwise the first account with that number in
\* depth-first pre-order over the roots (the unique one when numbers are
\* unique); get_leaf_accounts returns every account with no children exactly
\* once, in depth-first child-list order.
C24_FindAndLeaves ==
    /\ coa.op = "find_account" =>
          /\ Hits = {} => coa.found = None
          /\ Hits # {} =>
                \E k \in Hits : /\ \A j \in Hits : k <= j
                                /\ coa.found = PreOrder[k]
    /\ coa.op = "get_leaf_accounts" =>
          /\ {coa.leaves[k] : k \in 1..Len(coa.leaves)} = ChildlessAccounts
          /\ Len(coa.leaves) = Cardinality(ChildlessAccounts)
          /\ coa.leaves = SelectSeq(PreOrder, LAMBDA a : a \in ChildlessAccounts)

\* find_account on a chart in which a root and an account below an earlier
\* root carry the number asked for: the one below the earlier root is found.
C24_Witness ==
    /\ coa.op = "find_account"
    /\ Cardinality(Hits) >= 2
    /\ coa.chart.roots = <<"A3", "A1">>
    /\ coa.chart.accounts["A3"].children = <<"A4">>
    /\ coa.chart.accounts["A3"].number # coa.number
    /\ coa.chart.accounts["A1"].number = coa.number
    /\ coa.found = "A4"

====
